---- MODULE Spec2Model ----
\* Model of src/src/PkgManager.cpp (QDirStat package manager support):
\* the PkgQuery singleton, its registry of package managers, its QCache of
\* owning packages, and the output parsing of the Dpkg, Rpm and PacMan
\* package managers.
EXTENDS Integers, Sequences, FiniteSets, TLC

VARIABLES
    host,                   \* the machine: which commands exist, which manager attests itself
    _instance,              \* PkgQuery::_instance != 0
    _pkgManagers,           \* PkgQuery::_pkgManagers
    _secondaryPkgManagers,  \* PkgQuery::_secondaryPkgManagers
    _cache,                 \* PkgQuery::_cache, most recently used entry first
    _rpmCommand,            \* RpmPkgManager::_rpmCommand ("" while no RpmPkgManager was constructed)
    probeLog,               \* history: the isPrimaryPkgManager / isAvailable calls made so far
    queried,                \* history: the paths some owningPkg() call asked the package managers about
    requeried,              \* history: the paths more than one owningPkg() call asked the managers about
    asked,                  \* history: the paths owningPkg() was called with so far
    runResult,              \* the command a package manager has run on its own, and what runCommand() returned
    threads,                \* per thread: where it is in PkgQuery::owningPkg(), its path, pkg and manager calls
    dataRace,               \* a thread used _cache while another thread was inside a QCache call that writes
    lastCall                \* history: the last public call, its result and the manager calls it made

vars == << host, _instance, _pkgManagers, _secondaryPkgManagers, _cache, _rpmCommand,
           probeLog, queried, requeried, asked, runResult, threads, dataRace, lastCall >>

-----------------------------------------------------------------------------
\* Bounds of the model

MaxPath == 1        \* owningPkg() is called with the paths 1..MaxPath in Spec
MaxOverflow == 2    \* SpecScan asks about this many paths more than the cache can hold
MaxLines == 3       \* SpecParse parses dpkg-query outputs of up to this many lines

\* Program constants

CACHE_SIZE == 500
CACHE_COST == 1

-----------------------------------------------------------------------------
\* Strings (QString) and lists

Min(a, b) == IF a <= b THEN a ELSE b

Range(s) == { s[i] : i \in 1..Len(s) }

\* QString::contains( sub )
contains(s, sub) ==
    \E i \in 1..(Len(s) - Len(sub) + 1) : SubSeq(s, i, i + Len(sub) - 1) = sub

\* the positions where sub occurs in s
occurrences(s, sub) ==
    { i \in 1..(Len(s) - Len(sub) + 1) : SubSeq(s, i, i + Len(sub) - 1) = sub }

\* QString::indexOf( sub ), counted from 1: the first occurrence, 0 if there is none
indexOf(s, sub) ==
    LET occ == occurrences(s, sub)
    IN  IF occ = {} THEN 0 ELSE CHOOSE i \in occ : \A j \in occ : i <= j

\* QString::lastIndexOf( sub ), counted from 1: the last occurrence, 0 if there is none
lastIndexOf(s, sub) ==
    LET occ == occurrences(s, sub)
    IN  IF occ = {} THEN 0 ELSE CHOOSE i \in occ : \A j \in occ : i >= j

\* QString::section( sep, 0, 0 ) for a one-character separator: the text
\* before the first separator, the whole string if there is none
section00(s, sep) ==
    LET i == indexOf(s, sep)
    IN  IF i = 0 THEN s ELSE SubSeq(s, 1, i - 1)

-----------------------------------------------------------------------------
\* The host system (SysUtil)

Backends == { "Dpkg", "Rpm", "PacMan" }

Commands == { "/usr/bin/dpkg", "/usr/bin/rpm", "/bin/rpm", "/usr/bin/pacman" }

Hosts == [ commands : SUBSET Commands, attests : SUBSET Backends ]

\* SysUtil::haveCommand( command )
haveCommand(h, command) == command \in h.commands

\* SysUtil::tryRunCommand( commandLine, expected ): the command runs and its
\* output matches the expected pattern; a missing command is a failure
tryRunCommand(h, command, b) == haveCommand(h, command) /\ b \in h.attests

\* the constructor that leaves _rpmCommand empty when /usr/bin/rpm is missing
RpmPkgManager_empty(h) ==
    IF haveCommand(h, "/usr/bin/rpm") THEN "/usr/bin/rpm" ELSE ""

\* RpmPkgManager::RpmPkgManager()
RpmPkgManager(h) ==
    IF haveCommand(h, "/usr/bin/rpm") THEN "/usr/bin/rpm" ELSE "/bin/rpm"

\* <manager>::isPrimaryPkgManager()
isPrimaryPkgManager(h, b) ==
    CASE b = "Dpkg"   -> tryRunCommand(h, "/usr/bin/dpkg", b)
      [] b = "Rpm"    -> tryRunCommand(h, RpmPkgManager(h), b)
      [] b = "PacMan" -> tryRunCommand(h, "/usr/bin/pacman", b)

\* <manager>::isAvailable()
isAvailable(h, b) ==
    CASE b = "Dpkg"   -> haveCommand(h, "/usr/bin/dpkg")
      [] b = "Rpm"    -> haveCommand(h, RpmPkgManager(h))
      [] b = "PacMan" -> haveCommand(h, "/usr/bin/pacman")

-----------------------------------------------------------------------------
\* The package managers: running the query command and parsing its output

\* What SysUtil::runCommand() hands back: the exit code and the output
CmdResult(code, out) == [ exitCode |-> code, output |-> out ]

\* DpkgPkgManager::owningPkg() that gives up only when both failure signs show
DpkgOwningPkg_bothSigns(res) ==
    IF res.exitCode # 0 /\ contains(res.output, "no path found matching pattern")
    THEN ""
    ELSE section00(res.output, ":")

\* DpkgPkgManager::owningPkg(): the result of "/usr/bin/dpkg -S <path>"
DpkgOwningPkg(res) ==
    IF res.exitCode # 0 \/ contains(res.output, "no path found matching pattern")
    THEN ""
    ELSE section00(res.output, ":")

\* RpmPkgManager::owningPkg(): the result of "<_rpmCommand> -qf --queryformat %{NAME} <path>"
RpmOwningPkg(res) ==
    IF res.exitCode # 0 \/ contains(res.output, "not owned by any package")
    THEN ""
    ELSE res.output

\* the removal with a match that is not greedy: it ends with the first
\* "is owned by " of the output
removeOwnedByPrefix_first(output) ==
    LET i == indexOf(output, "is owned by ")
    IN  IF i = 0 THEN output ELSE SubSeq(output, i + Len("is owned by "), Len(output))

\* output.remove( QRegExp( "^.*is owned by " ) ): the greedy match ends with
\* the last "is owned by " of the output
removeOwnedByPrefix(output) ==
    LET i == lastIndexOf(output, "is owned by ")
    IN  IF i = 0 THEN output ELSE SubSeq(output, i + Len("is owned by "), Len(output))

\* PacManPkgManager::owningPkg(): the result of "/usr/bin/pacman -Qo <path>"
PacManOwningPkg(res) ==
    IF res.exitCode # 0 \/ contains(res.output, "No package owns")
    THEN ""
    ELSE section00(removeOwnedByPrefix(res.output), " ")

\* PkgManager::owningPkg(), dispatched on the manager
mgrOwningPkg(b, res) ==
    CASE b = "Dpkg"   -> DpkgOwningPkg(res)
      [] b = "Rpm"    -> RpmOwningPkg(res)
      [] b = "PacMan" -> PacManOwningPkg(res)

\* QString::split( sep ) with QString::KeepEmptyParts, one-character separator
RECURSIVE split(_, _)
split(s, sep) ==
    LET i == indexOf(s, sep)
    IN  IF i = 0 THEN << s >>
        ELSE << SubSeq(s, 1, i - 1) >> \o split(SubSeq(s, i + 1, Len(s)), sep)

\* new PkgInfo( name, version, arch )
PkgInfo(name, version, arch) == [ name |-> name, version |-> version, arch |-> arch ]

\* the loop of parsePkgList() that gives up at the first invalid line
RECURSIVE parseLines_stopAtInvalid(_)
parseLines_stopAtInvalid(lines) ==
    IF lines = << >> THEN << >>
    ELSE LET line   == Head(lines)
             fields == split(line, " ")
         IN  IF line = "" THEN parseLines_stopAtInvalid(Tail(lines))
             ELSE IF Len(fields) = 3
             THEN << PkgInfo(fields[1], fields[3], fields[2]) >> \o parseLines_stopAtInvalid(Tail(lines))
             ELSE << >>

\* the loop body of DpkgPkgManager::parsePkgList() for the lines of the output
RECURSIVE parseLines(_)
parseLines(lines) ==
    IF lines = << >> THEN << >>
    ELSE LET line   == Head(lines)
             fields == split(line, " ")
         IN  IF line # "" /\ Len(fields) = 3
             THEN << PkgInfo(fields[1], fields[3], fields[2]) >> \o parseLines(Tail(lines))
             ELSE parseLines(Tail(lines))

\* DpkgPkgManager::parsePkgList()
parsePkgList(output) == parseLines(split(output, "\n"))

\* DpkgPkgManager::installedPkg(): the result of "/usr/bin/dpkg-query --show ..."
DpkgInstalledPkg(res) ==
    IF res.exitCode = 0 THEN parsePkgList(res.output) ELSE << >>

\* DpkgPkgManager::fileList(): not implemented, always empty
DpkgFileList(pkg) == << >>

-----------------------------------------------------------------------------
\* The registry of package managers

\* checkPkgManager that appends an available manager to _pkgManagers at once
checkPkgManager_singleList(h, st, b) ==
    IF isPrimaryPkgManager(h, b)
    THEN [ st EXCEPT !.pm  = st.pm \o << b >>,
                     !.log = st.log \o << << b, "isPrimaryPkgManager" >> >> ]
    ELSE IF isAvailable(h, b)
    THEN [ st EXCEPT !.pm  = st.pm \o << b >>,
                     !.log = st.log \o << << b, "isPrimaryPkgManager" >>, << b, "isAvailable" >> >> ]
    ELSE [ st EXCEPT !.log = st.log \o << << b, "isPrimaryPkgManager" >>, << b, "isAvailable" >> >> ]

\* checkPkgManager that takes every manager that is not primary for a
\* secondary one, without the call of isAvailable()
checkPkgManager_noAvailable(h, st, b) ==
    IF isPrimaryPkgManager(h, b)
    THEN [ st EXCEPT !.pm  = st.pm \o << b >>,
                     !.log = st.log \o << << b, "isPrimaryPkgManager" >> >> ]
    ELSE [ st EXCEPT !.sec = st.sec \o << b >>,
                     !.log = st.log \o << << b, "isPrimaryPkgManager" >>, << b, "isAvailable" >> >> ]

\* PkgQuery::checkPkgManager( new <manager> ) on the lists st.pm
\* (_pkgManagers) and st.sec (_secondaryPkgManagers); st.log records the probes
checkPkgManager(h, st, b) ==
    IF isPrimaryPkgManager(h, b)
    THEN [ st EXCEPT !.pm  = st.pm \o << b >>,
                     !.log = st.log \o << << b, "isPrimaryPkgManager" >> >> ]
    ELSE IF isAvailable(h, b)
    THEN [ st EXCEPT !.sec = st.sec \o << b >>,
                     !.log = st.log \o << << b, "isPrimaryPkgManager" >>, << b, "isAvailable" >> >> ]
    ELSE [ st EXCEPT !.log = st.log \o << << b, "isPrimaryPkgManager" >>, << b, "isAvailable" >> >> ]

\* the order in which PkgQuery::checkPkgManagers() probes the managers
ProbeOrder == << "Dpkg", "Rpm", "PacMan" >>

\* PkgQuery::checkPkgManagers()
checkPkgManagers(h, st) ==
    LET s1 == checkPkgManager(h, st, ProbeOrder[1])
        s2 == checkPkgManager(h, s1, ProbeOrder[2])
        s3 == checkPkgManager(h, s2, ProbeOrder[3])
    IN  [ s3 EXCEPT !.pm = s3.pm \o s3.sec, !.sec = << >> ]

-----------------------------------------------------------------------------
\* The cache (QCache<QString, QString>): a list of entries, the most recently
\* used one first; every entry is inserted with cost CACHE_COST

\* QCache::contains( key )
cacheContains(c, key) == \E i \in 1..Len(c) : c[i].key = key

cacheIndex(c, key) == CHOOSE i \in 1..Len(c) : c[i].key = key

cacheRemoveAt(c, i) == SubSeq(c, 1, i - 1) \o SubSeq(c, i + 1, Len(c))

\* QCache::remove( key )
cacheRemove(c, key) ==
    IF cacheContains(c, key) THEN cacheRemoveAt(c, cacheIndex(c, key)) ELSE c

\* QCache::operator[]( key ): the object of the key ...
cacheObject(c, key) == c[cacheIndex(c, key)].obj

\* ... and the entry moves to the front of the list
cacheRelink(c, key) ==
    LET i == cacheIndex(c, key) IN << c[i] >> \o cacheRemoveAt(c, i)

cacheTotalCost(c) == Len(c) * CACHE_COST

\* QCache::trim( m ): drop entries from the back while the total cost is above m
RECURSIVE cacheTrim(_, _)
cacheTrim(c, m) ==
    IF c # << >> /\ cacheTotalCost(c) > m
    THEN cacheTrim(SubSeq(c, 1, Len(c) - 1), m)
    ELSE c

\* the maximum cost a QCache has when setMaxCost() is not called (100)
cacheMaxCost_default == CACHE_SIZE \div 5

\* _cache.setMaxCost( CACHE_SIZE ) in PkgQuery::PkgQuery()
cacheMaxCost == CACHE_SIZE

\* QCache::insert( key, object, cost )
cacheInsert(c, key, obj, cost) ==
    IF cost > cacheMaxCost
    THEN cacheRemove(c, key)
    ELSE << [ key |-> key, obj |-> obj ] >> \o cacheTrim(cacheRemove(c, key), cacheMaxCost - cost)

cacheKeys(c) == { c[i].key : i \in 1..Len(c) }

-----------------------------------------------------------------------------
\* The PkgQuery singleton

\* PkgQuery::PkgQuery(): the object a first PkgQuery::instance() constructs
PkgQuery(h, log) ==
    LET st == checkPkgManagers(h, [ pm |-> << >>, sec |-> << >>, log |-> log ])
    IN  [ pm |-> st.pm, sec |-> st.sec, log |-> st.log,
          cache |-> << >>, rpm |-> RpmPkgManager(h) ]

\* instance() without the check of _instance: a new PkgQuery on every call
instance_always == PkgQuery(host, probeLog)

\* PkgQuery::instance(): the singleton, constructed on the first call
instance ==
    IF _instance
    THEN [ pm |-> _pkgManagers, sec |-> _secondaryPkgManagers, log |-> probeLog,
           cache |-> _cache, rpm |-> _rpmCommand ]
    ELSE PkgQuery(host, probeLog)

\* the command a manager runs for an ownership query
owningPkgCommand(b, rpm) ==
    CASE b = "Dpkg"   -> "/usr/bin/dpkg"
      [] b = "Rpm"    -> rpm
      [] b = "PacMan" -> "/usr/bin/pacman"

\* the foreach loop without its break: every manager is asked, the answer of
\* the last one stays in pkg
RECURSIVE queryOwningPkg_noBreak(_, _, _)
queryOwningPkg_noBreak(mgrs, outs, rpm) ==
    IF mgrs = << >>
    THEN [ pkg |-> "", invoked |-> << >> ]
    ELSE LET b    == Head(mgrs)
             pkg  == mgrOwningPkg(b, outs[b])
             call == [ mgr |-> b, op |-> "owningPkg", cmd |-> owningPkgCommand(b, rpm), ret |-> pkg ]
             rest == queryOwningPkg_noBreak(Tail(mgrs), outs, rpm)
         IN  [ pkg     |-> IF Tail(mgrs) = << >> THEN pkg ELSE rest.pkg,
               invoked |-> << call >> \o rest.invoked ]

\* the foreach loop of PkgQuery::getOwningPackage(): outs[b] is what the
\* command of manager b returns when it is run now
RECURSIVE queryOwningPkg(_, _, _)
queryOwningPkg(mgrs, outs, rpm) ==
    IF mgrs = << >>
    THEN [ pkg |-> "", invoked |-> << >> ]
    ELSE LET b    == Head(mgrs)
             pkg  == mgrOwningPkg(b, outs[b])
             call == [ mgr |-> b, op |-> "owningPkg", cmd |-> owningPkgCommand(b, rpm), ret |-> pkg ]
             rest == queryOwningPkg(Tail(mgrs), outs, rpm)
         IN  IF pkg # ""
             THEN [ pkg |-> pkg, invoked |-> << call >> ]
             ELSE [ pkg |-> rest.pkg, invoked |-> << call >> \o rest.invoked ]

\* getOwningPackage that caches a package name only when one was found
getOwningPackage_skipEmpty(svc, path, outs) ==
    IF cacheContains(svc.cache, path)
    THEN [ pkg     |-> cacheObject(svc.cache, path),
           cache   |-> cacheRelink(svc.cache, path),
           invoked |-> << >>,
           foundBy |-> "Cache" ]
    ELSE LET q == queryOwningPkg(svc.pm, outs, svc.rpm)
         IN  [ pkg     |-> q.pkg,
               cache   |-> IF q.pkg = "" THEN svc.cache
                           ELSE cacheInsert(svc.cache, path, q.pkg, CACHE_COST),
               invoked |-> q.invoked,
               foundBy |-> IF q.pkg # "" THEN q.invoked[Len(q.invoked)].mgr ELSE "all" ]

\* getOwningPackage that takes an empty cached name for "not in the cache"
getOwningPackage_emptyIsMiss(svc, path, outs) ==
    IF cacheContains(svc.cache, path) /\ cacheObject(svc.cache, path) # ""
    THEN [ pkg     |-> cacheObject(svc.cache, path),
           cache   |-> cacheRelink(svc.cache, path),
           invoked |-> << >>,
           foundBy |-> "Cache" ]
    ELSE LET q == queryOwningPkg(svc.pm, outs, svc.rpm)
         IN  [ pkg     |-> q.pkg,
               cache   |-> cacheInsert(svc.cache, path, q.pkg, CACHE_COST),
               invoked |-> q.invoked,
               foundBy |-> IF q.pkg # "" THEN q.invoked[Len(q.invoked)].mgr ELSE "all" ]

\* getOwningPackage that takes a found entry out of the cache (QCache::take)
getOwningPackage_take(svc, path, outs) ==
    IF cacheContains(svc.cache, path)
    THEN [ pkg     |-> cacheObject(svc.cache, path),
           cache   |-> cacheRemove(svc.cache, path),
           invoked |-> << >>,
           foundBy |-> "Cache" ]
    ELSE LET q == queryOwningPkg(svc.pm, outs, svc.rpm)
         IN  [ pkg     |-> q.pkg,
               cache   |-> cacheInsert(svc.cache, path, q.pkg, CACHE_COST),
               invoked |-> q.invoked,
               foundBy |-> IF q.pkg # "" THEN q.invoked[Len(q.invoked)].mgr ELSE "all" ]

\* getOwningPackage that returns on a hit the name of the entry used last,
\* whatever its key is
getOwningPackage_frontEntry(svc, path, outs) ==
    IF cacheContains(svc.cache, path)
    THEN [ pkg     |-> svc.cache[1].obj,
           cache   |-> cacheRelink(svc.cache, path),
           invoked |-> << >>,
           foundBy |-> "Cache" ]
    ELSE LET q == queryOwningPkg(svc.pm, outs, svc.rpm)
         IN  [ pkg     |-> q.pkg,
               cache   |-> cacheInsert(svc.cache, path, q.pkg, CACHE_COST),
               invoked |-> q.invoked,
               foundBy |-> IF q.pkg # "" THEN q.invoked[Len(q.invoked)].mgr ELSE "all" ]

\* PkgQuery::getOwningPackage( path )
getOwningPackage(svc, path, outs) ==
    IF cacheContains(svc.cache, path)
    THEN [ pkg     |-> cacheObject(svc.cache, path),
           cache   |-> cacheRelink(svc.cache, path),
           invoked |-> << >>,
           foundBy |-> "Cache" ]
    ELSE LET q == queryOwningPkg(svc.pm, outs, svc.rpm)
         IN  [ pkg     |-> q.pkg,
               cache   |-> cacheInsert(svc.cache, path, q.pkg, CACHE_COST),
               invoked |-> q.invoked,
               foundBy |-> IF q.pkg # "" THEN q.invoked[Len(q.invoked)].mgr ELSE "all" ]

\* PkgManager::installedPkg(), dispatched on the manager: ins[b] is what the
\* listing of manager b returns when it is asked now
mgrInstalledPkg(b, ins) ==
    IF b = "Dpkg" THEN DpkgInstalledPkg(ins[b]) ELSE ins[b]

\* PkgManager::fileList(), dispatched on the manager
mgrFileList(b, pkg, fls) ==
    IF b = "Dpkg" THEN DpkgFileList(pkg) ELSE fls[b]

\* getInstalledPkg that stops at the first manager with a non-empty list
RECURSIVE getInstalledPkg_firstList(_, _)
getInstalledPkg_firstList(mgrs, ins) ==
    IF mgrs = << >>
    THEN [ pkgList |-> << >>, invoked |-> << >> ]
    ELSE LET b    == Head(mgrs)
             list == mgrInstalledPkg(b, ins)
             call == [ mgr |-> b, op |-> "installedPkg", ret |-> list ]
             rest == getInstalledPkg_firstList(Tail(mgrs), ins)
         IN  IF list # << >>
             THEN [ pkgList |-> list, invoked |-> << call >> ]
             ELSE [ pkgList |-> rest.pkgList, invoked |-> << call >> \o rest.invoked ]

\* PkgQuery::getInstalledPkg()
RECURSIVE getInstalledPkg(_, _)
getInstalledPkg(mgrs, ins) ==
    IF mgrs = << >>
    THEN [ pkgList |-> << >>, invoked |-> << >> ]
    ELSE LET b    == Head(mgrs)
             list == mgrInstalledPkg(b, ins)
             call == [ mgr |-> b, op |-> "installedPkg", ret |-> list ]
             rest == getInstalledPkg(Tail(mgrs), ins)
         IN  [ pkgList |-> list \o rest.pkgList, invoked |-> << call >> \o rest.invoked ]

\* getFileList that goes on after a non-empty list and returns the last one
RECURSIVE getFileList_lastList(_, _, _)
getFileList_lastList(mgrs, pkg, fls) ==
    IF mgrs = << >>
    THEN [ fileList |-> << >>, invoked |-> << >> ]
    ELSE LET b    == Head(mgrs)
             list == mgrFileList(b, pkg, fls)
             call == [ mgr |-> b, op |-> "fileList", ret |-> list ]
             rest == getFileList_lastList(Tail(mgrs), pkg, fls)
         IN  [ fileList |-> IF rest.fileList # << >> THEN rest.fileList ELSE list,
               invoked  |-> << call >> \o rest.invoked ]

\* PkgQuery::getFileList( pkg )
RECURSIVE getFileList(_, _, _)
getFileList(mgrs, pkg, fls) ==
    IF mgrs = << >>
    THEN [ fileList |-> << >>, invoked |-> << >> ]
    ELSE LET b    == Head(mgrs)
             list == mgrFileList(b, pkg, fls)
             call == [ mgr |-> b, op |-> "fileList", ret |-> list ]
             rest == getFileList(Tail(mgrs), pkg, fls)
         IN  IF list # << >>
             THEN [ fileList |-> list, invoked |-> << call >> ]
             ELSE [ fileList |-> rest.fileList, invoked |-> << call >> \o rest.invoked ]

-----------------------------------------------------------------------------
\* What the callers pass and what the commands of the host answer

Paths == 1..MaxPath

\* what the ownership query command of manager b can answer: an owner, a
\* non-zero exit code, a failure marker somewhere in the output, or both
OwningResults(b) ==
    CASE b = "Dpkg" ->
            { CmdResult(0, "coreutils: /bin/ls"),
              CmdResult(1, "coreutils: /bin/ls"),
              CmdResult(0, "coreutils: /bin/ls dpkg-query: no path found matching pattern /x"),
              CmdResult(1, "dpkg-query: no path found matching pattern /bin/ls") }
      [] b = "Rpm" ->
            { CmdResult(0, "bash"),
              CmdResult(1, "bash"),
              CmdResult(0, "bash file /x is not owned by any package"),
              CmdResult(1, "file /bin/ls is not owned by any package") }
      [] b = "PacMan" ->
            { CmdResult(0, "/usr/bin/pacman is owned by pacman 5.1.1-3"),
              CmdResult(1, "/usr/bin/pacman is owned by pacman 5.1.1-3"),
              CmdResult(0, "/bin/ls is owned by pacman 5.1.1-3 error: No package owns /x"),
              CmdResult(1, "error: No package owns /bin/ls") }

NotRun == CmdResult(-1, "")

\* what the command of manager b can answer to a query of svc for the path: no
\* command is run for a manager that is not in the list, nor on a cache hit
AnswersOf(b, svc, path) ==
    IF b \in Range(svc.pm) /\ ~cacheContains(svc.cache, path)
    THEN OwningResults(b) ELSE { NotRun }

Pkgs == { PkgInfo("bash", "5.0", "amd64") }

InstalledResults(b) ==
    IF b = "Dpkg"
    THEN { CmdResult(0, "bash amd64 5.0\nzsh amd64 5.8"), CmdResult(1, "bash amd64 5.0") }
    ELSE { << >>, << PkgInfo("bash", "5.0", "amd64") >> }

FileListResults(b) ==
    CASE b = "Dpkg"   -> { << >> }
      [] b = "Rpm"    -> { << >>, << "a", "b" >> }
      [] b = "PacMan" -> { << >>, << "c" >> }

-----------------------------------------------------------------------------
\* The public operations. Each one goes through PkgQuery::instance() first.

NoCall == [ op |-> "none" ]

\* no package manager was called on its own
NoRun == [ command |-> "", result |-> NotRun ]

\* the threads that call PkgQuery::owningPkg()
Threads == { "A", "B" }

\* a thread that is not in a call
Idle == [ pc |-> "idle", path |-> 0, pkg |-> "", invoked |-> << >>, raced |-> FALSE ]

\* the part of the state every public operation sets the same way
Instantiated(svc) ==
    /\ _instance' = TRUE
    /\ _pkgManagers' = svc.pm
    /\ _secondaryPkgManagers' = svc.sec
    /\ _rpmCommand' = svc.rpm
    /\ probeLog' = svc.log
    /\ UNCHANGED << host, runResult, threads, dataRace >>

\* foundSupportedPkgManager() that reports that the singleton exists
foundSupported_instance(svc) == TRUE

\* the value PkgQuery::foundSupportedPkgManager() returns
foundSupported(svc) == svc.pm # << >>

\* PkgQuery::foundSupportedPkgManager()
foundSupportedPkgManager ==
    \E svc \in { instance } :
        /\ Instantiated(svc)
        /\ _cache' = svc.cache
        /\ lastCall' = [ op |-> "foundSupportedPkgManager", arg |-> 0,
                         result |-> foundSupported(svc), invoked |-> << >> ]
        /\ UNCHANGED << queried, requeried, asked >>

\* PkgQuery::owningPkg( path ) when the commands answer outs
owningPkgWith(path, outs) ==
    \E svc \in { instance } :
    \E r \in { getOwningPackage(svc, path, outs) } :
        /\ Instantiated(svc)
        /\ _cache' = r.cache
        /\ lastCall' = [ op |-> "owningPkg", arg |-> path, result |-> r.pkg,
                         resident |-> cacheContains(svc.cache, path),
                         invoked |-> r.invoked, foundBy |-> r.foundBy, outs |-> outs,
                         repeated |-> lastCall.op = "owningPkg" /\ lastCall.arg = path,
                         before |-> IF lastCall.op = "owningPkg" /\ lastCall.arg = path
                                    THEN lastCall.result ELSE "" ]
        /\ queried' = IF r.invoked # << >> THEN queried \cup { path } ELSE queried
        /\ requeried' = IF r.invoked # << >> /\ path \in queried
                        THEN requeried \cup { path } ELSE requeried
        /\ asked' = asked \cup { path }

owningPkg(path) ==
    \E d \in AnswersOf("Dpkg", instance, path), r \in AnswersOf("Rpm", instance, path),
       p \in AnswersOf("PacMan", instance, path) :
        owningPkgWith(path, [ b \in Backends |-> CASE b = "Dpkg" -> d [] b = "Rpm" -> r [] b = "PacMan" -> p ])

\* what the listing of manager b can answer: the output of dpkg-query for
\* Dpkg, the list of packages for the other managers
InstalledAnswers(b, svc) ==
    IF b \in Range(svc.pm) THEN InstalledResults(b) ELSE { NotRun }

\* installedPkg() that also empties the cache of owning packages
installedPkgWith_clearCache(ins) ==
    \E svc \in { instance } :
    \E res \in { getInstalledPkg(svc.pm, ins) } :
        /\ Instantiated(svc)
        /\ _cache' = << >>
        /\ lastCall' = [ op |-> "installedPkg", arg |-> 0, result |-> res.pkgList,
                         invoked |-> res.invoked, outs |-> ins,
                         repeated |-> lastCall.op = "installedPkg" ]
        /\ UNCHANGED << queried, requeried, asked >>

\* PkgQuery::installedPkg() when the managers answer ins
installedPkgWith(ins) ==
    \E svc \in { instance } :
    \E res \in { getInstalledPkg(svc.pm, ins) } :
        /\ Instantiated(svc)
        /\ _cache' = svc.cache
        /\ lastCall' = [ op |-> "installedPkg", arg |-> 0, result |-> res.pkgList,
                         invoked |-> res.invoked, outs |-> ins,
                         repeated |-> lastCall.op = "installedPkg" ]
        /\ UNCHANGED << queried, requeried, asked >>

installedPkg ==
    \E d \in InstalledAnswers("Dpkg", instance), r \in InstalledAnswers("Rpm", instance),
       p \in InstalledAnswers("PacMan", instance) :
        installedPkgWith([ b \in Backends |-> CASE b = "Dpkg" -> d [] b = "Rpm" -> r [] b = "PacMan" -> p ])

\* what manager b can answer to a file list query
FileListAnswers(b, svc) ==
    IF b \in Range(svc.pm) THEN FileListResults(b) ELSE { << >> }

\* PkgQuery::fileList( pkg ) when the managers answer fls
fileListWith(pkg, fls) ==
    \E svc \in { instance } :
    \E res \in { getFileList(svc.pm, pkg, fls) } :
        /\ Instantiated(svc)
        /\ _cache' = svc.cache
        /\ lastCall' = [ op |-> "fileList", arg |-> pkg, result |-> res.fileList,
                         invoked |-> res.invoked, outs |-> fls,
                         repeated |-> lastCall.op = "fileList" /\ lastCall.arg = pkg ]
        /\ UNCHANGED << queried, requeried, asked >>

fileList(pkg) ==
    \E r \in FileListAnswers("Rpm", instance), p \in FileListAnswers("PacMan", instance) :
        fileListWith(pkg, [ b \in Backends |-> CASE b = "Dpkg" -> << >> [] b = "Rpm" -> r [] b = "PacMan" -> p ])

-----------------------------------------------------------------------------
\* The specification: any host, any sequence of public calls

Init ==
    /\ host \in Hosts
    /\ _instance = FALSE
    /\ _pkgManagers = << >>
    /\ _secondaryPkgManagers = << >>
    /\ _cache = << >>
    /\ _rpmCommand = ""
    /\ probeLog = << >>
    /\ queried = {}
    /\ requeried = {}
    /\ asked = {}
    /\ runResult = NoRun
    /\ threads = [ t \in Threads |-> Idle ]
    /\ dataRace = FALSE
    /\ lastCall = NoCall

Next ==
    \/ foundSupportedPkgManager
    \/ \E path \in Paths : owningPkg(path)
    \/ installedPkg
    \/ \E pkg \in Pkgs : fileList(pkg)

Spec == Init /\ [][Next]_vars

-----------------------------------------------------------------------------
\* A second specification: a scan of a directory tree on one host. It asks
\* for the owner of one new path after the other, more paths than the cache
\* can hold, and now and then asks again for the first path of the scan. The
\* package database of the host does not change during the scan.

ScanHost == [ commands |-> { "/usr/bin/dpkg", "/usr/bin/rpm", "/usr/bin/pacman" },
              attests  |-> { "Rpm" } ]

ScanAnswer(b, path) ==
    CASE b = "Dpkg"   -> IF path % 2 = 0
                         THEN CmdResult(0, "coreutils: /bin/ls")
                         ELSE CmdResult(1, "dpkg-query: no path found matching pattern /bin/ls")
      [] b = "Rpm"    -> IF path % 3 = 0
                         THEN CmdResult(0, "bash")
                         ELSE CmdResult(1, "file /bin/ls is not owned by any package")
      [] b = "PacMan" -> CmdResult(1, "error: No package owns /bin/ls")

scan(path) ==
    \E run \in { ~cacheContains(instance.cache, path) } :
        owningPkgWith(path, [ b \in Backends |->
                                IF run /\ b \in Range(instance.pm)
                                THEN ScanAnswer(b, path) ELSE NotRun ])

InitScan == Init /\ host = ScanHost

NextScan ==
    \/ \E path \in { Cardinality(asked) + 1 } :
            /\ path <= CACHE_SIZE + MaxOverflow
            /\ scan(path)
    \/ /\ asked # {}
       /\ scan(1)

SpecScan == InitScan /\ [][NextScan]_vars

-----------------------------------------------------------------------------
\* A third specification: the package managers on their own. A manager has
\* run its command; it parses what runCommand() returned.

\* lines of a dpkg-query output: valid ones, one without a blank, an empty
\* one, one with an empty architecture, one with tabs, one with two blanks in
\* a row, one that begins with a blank, one with four fields
ListingLines ==
    { "pkgA amd64 1.0", "pkgB amd64 2.0", "GARBAGE", "", "pkgC  3.0",
      "pkgD\tall\t4.0", "pkgE  i386 5.0", " pkgF 6.0", "pkgG all 7.0 ok" }

RECURSIVE Join(_, _)
Join(lines, sep) ==
    IF Len(lines) = 1 THEN Head(lines) ELSE Head(lines) \o sep \o Join(Tail(lines), sep)

Listings ==
    { Join(lines, "\n") : lines \in UNION { [ 1..n -> ListingLines ] : n \in 1..MaxLines } }

\* what "/usr/bin/pacman -Qo <path>" prints when the package name owns the path
OwnedBy(path, name, version) == path \o " is owned by " \o name \o " " \o version

PacManPaths ==
    { "/usr/bin/pacman", "/opt/my files/a b", "/tmp/x is owned by y", "/srv/No package owns" }

PacManNames == { "pacman", "lib32-glibc" }

PacManVersions == { "5.1.1-3", "1:2.28-1" }

PacManOutputs ==
    { OwnedBy(path, name, version) :
        path \in PacManPaths, name \in PacManNames, version \in PacManVersions }
        \cup { "error: No package owns /bin/ls" }

ExitCodes == { 0, 1 }

RunResults ==
    { [ command |-> "/usr/bin/dpkg-query", result |-> CmdResult(code, out) ] :
        code \in ExitCodes, out \in Listings }
    \cup
    { [ command |-> "/usr/bin/pacman", result |-> CmdResult(code, out) ] :
        code \in ExitCodes, out \in PacManOutputs }

\* DpkgPkgManager::installedPkg() after its runCommand()
dpkgInstalledPkg ==
    /\ runResult.command = "/usr/bin/dpkg-query"
    /\ lastCall' = [ op |-> "DpkgPkgManager::installedPkg", arg |-> runResult.result,
                     result |-> DpkgInstalledPkg(runResult.result), invoked |-> << >> ]
    /\ UNCHANGED << host, _instance, _pkgManagers, _secondaryPkgManagers, _cache, _rpmCommand,
                    probeLog, queried, requeried, asked, runResult, threads, dataRace >>

\* PacManPkgManager::owningPkg( path ) after its runCommand()
pacManOwningPkg ==
    /\ runResult.command = "/usr/bin/pacman"
    /\ lastCall' = [ op |-> "PacManPkgManager::owningPkg", arg |-> runResult.result,
                     result |-> PacManOwningPkg(runResult.result), invoked |-> << >> ]
    /\ UNCHANGED << host, _instance, _pkgManagers, _secondaryPkgManagers, _cache, _rpmCommand,
                    probeLog, queried, requeried, asked, runResult, threads, dataRace >>

InitParse ==
    /\ host = ScanHost
    /\ _instance = FALSE
    /\ _pkgManagers = << >>
    /\ _secondaryPkgManagers = << >>
    /\ _cache = << >>
    /\ _rpmCommand = ""
    /\ probeLog = << >>
    /\ queried = {}
    /\ requeried = {}
    /\ asked = {}
    /\ runResult \in RunResults
    /\ threads = [ t \in Threads |-> Idle ]
    /\ dataRace = FALSE
    /\ lastCall = NoCall

NextParse ==
    \/ dpkgInstalledPkg
    \/ pacManOwningPkg

SpecParse == InitParse /\ [][NextParse]_vars

-----------------------------------------------------------------------------
\* A fourth specification: two threads call PkgQuery::owningPkg(). The code
\* takes no lock, so the statements of the threads interleave. QCache is
\* not thread-safe: a use of _cache while another thread is inside
\* operator[] or insert() is a data race, and what the calls involved do is
\* not defined; the model lets each of them work as usual, lose its effect,
\* or crash the thread.

ThreadPaths == { 2, 3 }

\* the positions of a thread inside a QCache call that writes
InsideCache == { "lookupEnd", "insertEnd" }

\* thread t uses _cache while another thread is inside a QCache call that writes
racing(t) == \E u \in Threads \ { t } : threads[u].pc \in InsideCache

\* thread t goes on to position pc; when its use of _cache races, it and the
\* threads inside QCache are marked
goWith(t, pc, race) ==
    [ u \in Threads |->
        IF u = t THEN [ threads[t] EXCEPT !.pc = pc, !.raced = @ \/ race ]
        ELSE IF race /\ threads[u].pc \in InsideCache
             THEN [ threads[u] EXCEPT !.raced = TRUE ]
             ELSE threads[u] ]

\* what the threads leave alone
threadFrame ==
    UNCHANGED << host, _instance, _pkgManagers, _secondaryPkgManagers, _rpmCommand,
                 probeLog, runResult, lastCall >>

\* PkgQuery::owningPkg( path ) is called in thread t
threadCall(t, path) ==
    /\ threads[t].pc = "idle"
    /\ threads' = [ threads EXCEPT ![t] = [ Idle EXCEPT !.pc = "instance", !.path = path ] ]
    /\ asked' = asked \cup { path }
    /\ UNCHANGED << _cache, dataRace, queried, requeried >>
    /\ threadFrame

\* PkgQuery::instance() in thread t; the singleton exists when the threads start
threadInstance(t) ==
    /\ threads[t].pc = "instance"
    /\ _instance
    /\ threads' = goWith(t, "contains", FALSE)
    /\ UNCHANGED << _cache, dataRace, queried, requeried, asked >>
    /\ threadFrame

\* if ( _cache.contains( path ) ) in thread t
threadContains(t) ==
    /\ threads[t].pc = "contains"
    /\ \E race \in { racing(t) } :
       \E hit \in IF race THEN BOOLEAN ELSE { cacheContains(_cache, threads[t].path) } :
            /\ threads' = goWith(t, IF hit THEN "lookup" ELSE "foreach", race)
            /\ dataRace' = (dataRace \/ race)
    /\ UNCHANGED << _cache, queried, requeried, asked >>
    /\ threadFrame

\* thread t enters _cache[ path ]
threadLookup(t) ==
    /\ threads[t].pc = "lookup"
    /\ \E race \in { racing(t) } :
            /\ threads' = goWith(t, "lookupEnd", race)
            /\ dataRace' = (dataRace \/ race)
    /\ UNCHANGED << _cache, queried, requeried, asked >>
    /\ threadFrame

\* pkg = *( _cache[ path ] ) in thread t: operator[] returns 0 for a key
\* that is not in the cache
threadLookupEnd(t) ==
    /\ threads[t].pc = "lookupEnd"
    /\ \/ /\ cacheContains(_cache, threads[t].path)
          /\ threads' = [ threads EXCEPT ![t].pc = "return",
                                          ![t].pkg = cacheObject(_cache, threads[t].path) ]
          /\ _cache' = cacheRelink(_cache, threads[t].path)
       \/ /\ cacheContains(_cache, threads[t].path)
          /\ threads[t].raced
          /\ threads' = [ threads EXCEPT ![t].pc = "return",
                                          ![t].pkg = cacheObject(_cache, threads[t].path) ]
          /\ _cache' = _cache
       \/ /\ ~cacheContains(_cache, threads[t].path) \/ threads[t].raced
          /\ threads' = [ threads EXCEPT ![t].pc = "crashed" ]
          /\ _cache' = _cache
    /\ UNCHANGED << dataRace, queried, requeried, asked >>
    /\ threadFrame

\* the foreach loop over _pkgManagers in thread t; the package database of
\* the host does not change, the managers answer as they do in the scan
threadForeach(t) ==
    /\ threads[t].pc = "foreach"
    /\ \E path \in { threads[t].path } :
       \E q \in { queryOwningPkg(_pkgManagers, [ b \in Backends |-> ScanAnswer(b, path) ],
                                  _rpmCommand) } :
            /\ threads' = [ threads EXCEPT ![t].pc = "insert", ![t].pkg = q.pkg,
                                            ![t].invoked = q.invoked ]
            /\ queried' = IF q.invoked # << >> THEN queried \cup { path } ELSE queried
            /\ requeried' = IF q.invoked # << >> /\ path \in queried
                            THEN requeried \cup { path } ELSE requeried
    /\ UNCHANGED << _cache, dataRace, asked >>
    /\ threadFrame

\* thread t enters _cache.insert( path, new QString( pkg ), CACHE_COST )
threadInsert(t) ==
    /\ threads[t].pc = "insert"
    /\ \E race \in { racing(t) } :
            /\ threads' = goWith(t, "insertEnd", race)
            /\ dataRace' = (dataRace \/ race)
    /\ UNCHANGED << _cache, queried, requeried, asked >>
    /\ threadFrame

\* _cache.insert() of thread t is through
threadInsertEnd(t) ==
    /\ threads[t].pc = "insertEnd"
    /\ \/ /\ threads' = [ threads EXCEPT ![t].pc = "return" ]
          /\ _cache' = cacheInsert(_cache, threads[t].path, threads[t].pkg, CACHE_COST)
       \/ /\ threads[t].raced
          /\ threads' = [ threads EXCEPT ![t].pc = "return" ]
          /\ _cache' = _cache
       \/ /\ threads[t].raced
          /\ threads' = [ threads EXCEPT ![t].pc = "crashed" ]
          /\ _cache' = _cache
    /\ UNCHANGED << dataRace, queried, requeried, asked >>
    /\ threadFrame

\* return pkg in thread t
threadReturn(t) ==
    /\ threads[t].pc = "return"
    /\ threads' = [ threads EXCEPT ![t].pc = "done" ]
    /\ UNCHANGED << _cache, dataRace, queried, requeried, asked >>
    /\ threadFrame

\* the state after a first call of PkgQuery::foundSupportedPkgManager() in
\* the main thread of a host with all three package managers
InitThreads ==
    \E svc \in { PkgQuery(ScanHost, << >>) } :
        /\ host = ScanHost
        /\ _instance = TRUE
        /\ _pkgManagers = svc.pm
        /\ _secondaryPkgManagers = svc.sec
        /\ _cache = svc.cache
        /\ _rpmCommand = svc.rpm
        /\ probeLog = svc.log
        /\ queried = {}
        /\ requeried = {}
        /\ asked = {}
        /\ runResult = NoRun
        /\ threads = [ t \in Threads |-> Idle ]
        /\ dataRace = FALSE
        /\ lastCall = [ op |-> "foundSupportedPkgManager", arg |-> 0,
                        result |-> foundSupported(svc), invoked |-> << >> ]

NextThreads ==
    \E t \in Threads :
        \/ \E path \in ThreadPaths : threadCall(t, path)
        \/ threadInstance(t)
        \/ threadContains(t)
        \/ threadLookup(t)
        \/ threadLookupEnd(t)
        \/ threadForeach(t)
        \/ threadInsert(t)
        \/ threadInsertEnd(t)
        \/ threadReturn(t)

SpecThreads == InitThreads /\ [][NextThreads]_vars

-----------------------------------------------------------------------------
\* Properties

isOwningPkgCall == lastCall.op = "owningPkg"

\* the position of the first manager of the list whose answer is not the
\* empty one, 0 if every answer is empty
FirstAnswering(n, isEmptyAt(_)) ==
    IF \A i \in 1..n : isEmptyAt(i) THEN 0
    ELSE CHOOSE i \in 1..n : ~isEmptyAt(i) /\ \A j \in 1..(i - 1) : isEmptyAt(j)

\* C1: two consecutive owningPkg( p ) calls return the same string and the
\* second one calls owningPkg() of no package manager, for a package name and
\* for the empty string alike.
C1_Idempotent ==
    (isOwningPkgCall /\ lastCall.repeated) =>
        /\ lastCall.result = lastCall.before
        /\ lastCall.invoked = << >>

\* C1: the second of two consecutive calls for a path nobody owns, on a host
\* with package managers
C1_Witness ==
    /\ isOwningPkgCall /\ lastCall.repeated
    /\ lastCall.result = ""
    /\ _pkgManagers # << >>

\* C2 as stated: no path is ever asked of the package managers by more than
\* one owningPkg() call.
C2_QueriedOnce == requeried = {}

\* C2 amended: an owningPkg( p ) call made while p is in the cache calls no
\* package manager, whatever the cached name is; a path is asked of the
\* managers a second time only after more than CACHE_SIZE distinct paths were
\* asked for, that is after entries were dropped from the cache.
C2_QueriedOnceWhileResident ==
    /\ (isOwningPkgCall /\ lastCall.resident) =>
            (lastCall.invoked = << >> /\ lastCall.foundBy = "Cache")
    /\ Cardinality(asked) <= CACHE_SIZE => requeried = {}
    /\ requeried \subseteq queried

\* C2: a call for a path with an empty cached name that is answered from the
\* cache after other entries were dropped from it
C2_Witness ==
    /\ isOwningPkgCall /\ lastCall.resident
    /\ lastCall.result = ""
    /\ Cardinality(asked) > CACHE_SIZE
    /\ lastCall.arg \in queried

\* C3: the cache never holds more than CACHE_SIZE keys, and after calls for N
\* distinct paths it holds exactly min(N, CACHE_SIZE) keys.
C3_CacheBound ==
    /\ Len(_cache) = Min(Cardinality(asked), CACHE_SIZE)
    /\ Cardinality(cacheKeys(_cache)) = Len(_cache)
    /\ Len(_cache) <= CACHE_SIZE

\* C3: more distinct paths were asked for than the cache holds
C3_Witness ==
    /\ Cardinality(asked) > CACHE_SIZE
    /\ Len(_cache) = CACHE_SIZE

isPrimaryOnHost(b) == isPrimaryPkgManager(host, b)
isSecondaryOnHost(b) == ~isPrimaryPkgManager(host, b) /\ isAvailable(host, b)

\* C4: the list of package managers is the primary ones in probe order
\* followed by the available non-primary ones in probe order; each of them is
\* in the list once, and a manager that is neither is not in the list.
C4_ActiveList ==
    _instance =>
        /\ _pkgManagers = SelectSeq(ProbeOrder, isPrimaryOnHost)
                            \o SelectSeq(ProbeOrder, isSecondaryOnHost)
        /\ \A b \in Backends :
                Cardinality({ i \in 1..Len(_pkgManagers) : _pkgManagers[i] = b })
                    = IF isPrimaryOnHost(b) \/ isSecondaryOnHost(b) THEN 1 ELSE 0

\* C4: a primary manager that is probed last stands before a secondary one
\* that is probed first, and the third manager is missing
C4_Witness ==
    /\ _instance
    /\ _pkgManagers = << "PacMan", "Dpkg" >>

\* C5: on a cache miss owningPkg( path ) returns the answer of the first
\* manager of the list with a non-empty answer, the empty string if there is
\* none; it asks the managers in list order up to that one and no manager
\* after it.
C5_FirstAnswer ==
    (isOwningPkgCall /\ ~lastCall.resident) =>
        LET pm      == _pkgManagers
            ans(i)  == mgrOwningPkg(pm[i], lastCall.outs[pm[i]])
            none(i) == ans(i) = ""
            first   == FirstAnswering(Len(pm), none)
        IN  /\ lastCall.result = IF first = 0 THEN "" ELSE ans(first)
            /\ Len(lastCall.invoked) = IF first = 0 THEN Len(pm) ELSE first
            /\ \A i \in 1..Len(lastCall.invoked) :
                    /\ lastCall.invoked[i].mgr = pm[i]
                    /\ lastCall.invoked[i].ret = ans(i)

\* C5: a primary manager and a secondary manager both know the owner, and
\* the primary one is probed after the secondary one
C5_Witness ==
    /\ isOwningPkgCall /\ ~lastCall.resident
    /\ Len(_pkgManagers) >= 2
    /\ _pkgManagers[1] = "Rpm" /\ isPrimaryOnHost("Rpm")
    /\ _pkgManagers[2] = "Dpkg" /\ isSecondaryOnHost("Dpkg")
    /\ mgrOwningPkg("Rpm", lastCall.outs["Rpm"]) = "bash"
    /\ mgrOwningPkg("Dpkg", lastCall.outs["Dpkg"]) = "coreutils"
    /\ lastCall.result = "bash"

RECURSIVE Concat(_)
Concat(lists) == IF lists = << >> THEN << >> ELSE Head(lists) \o Concat(Tail(lists))

\* C6: installedPkg() asks every manager of the list, also after a non-empty
\* answer, and returns their lists one after the other in list order, each in
\* its own order, duplicates included.
C6_Union ==
    lastCall.op = "installedPkg" =>
        LET pm == _pkgManagers
        IN  /\ lastCall.result
                 = Concat([ i \in 1..Len(pm) |-> mgrInstalledPkg(pm[i], lastCall.outs) ])
            /\ Len(lastCall.invoked) = Len(pm)
            /\ \A i \in 1..Len(pm) : lastCall.invoked[i].mgr = pm[i]

\* C6: three managers, the first two of them list the same package
C6_Witness ==
    /\ lastCall.op = "installedPkg"
    /\ Len(_pkgManagers) = 3
    /\ mgrInstalledPkg(_pkgManagers[1], lastCall.outs) # << >>
    /\ Len(lastCall.result) >= 3
    /\ \E i, j \in 1..Len(lastCall.result) : i < j /\ lastCall.result[i] = lastCall.result[j]

\* C7: fileList( pkg ) returns the list of the first manager with a non-empty
\* file list, the empty list if there is none, and asks no manager after
\* that one.
C7_FirstFileList ==
    lastCall.op = "fileList" =>
        LET pm      == _pkgManagers
            ans(i)  == mgrFileList(pm[i], lastCall.arg, lastCall.outs)
            none(i) == ans(i) = << >>
            first   == FirstAnswering(Len(pm), none)
        IN  /\ lastCall.result = IF first = 0 THEN << >> ELSE ans(first)
            /\ Len(lastCall.invoked) = IF first = 0 THEN Len(pm) ELSE first
            /\ \A i \in 1..Len(lastCall.invoked) : lastCall.invoked[i].mgr = pm[i]

\* C7: the first manager has no file list, the second and the third have
\* one, the third is not asked
C7_Witness ==
    /\ lastCall.op = "fileList"
    /\ Len(_pkgManagers) = 3
    /\ mgrFileList(_pkgManagers[1], lastCall.arg, lastCall.outs) = << >>
    /\ mgrFileList(_pkgManagers[2], lastCall.arg, lastCall.outs) # << >>
    /\ mgrFileList(_pkgManagers[3], lastCall.arg, lastCall.outs) # << >>
    /\ Len(lastCall.invoked) = 2
    /\ lastCall.result = mgrFileList(_pkgManagers[2], lastCall.arg, lastCall.outs)

EmptyResult(op) ==
    CASE op = "owningPkg"                -> ""
      [] op = "installedPkg"             -> << >>
      [] op = "fileList"                 -> << >>
      [] op = "foundSupportedPkgManager" -> FALSE

\* C8: foundSupportedPkgManager() is true exactly when the list of managers
\* is not empty; when the list is empty every public call returns the empty
\* result and calls no manager.
C8_NoManager ==
    /\ lastCall.op = "foundSupportedPkgManager" => lastCall.result = (_pkgManagers # << >>)
    /\ (_instance /\ _pkgManagers = << >>) =>
            /\ lastCall.result = EmptyResult(lastCall.op)
            /\ lastCall.invoked = << >>
            /\ queried = {}

\* C8: a second owningPkg() call for a path on a host without package manager
C8_Witness ==
    /\ _instance /\ _pkgManagers = << >>
    /\ isOwningPkgCall /\ lastCall.repeated

ProbeCount(b, probe) ==
    Cardinality({ i \in 1..Len(probeLog) : probeLog[i] = << b, probe >> })

\* C9: no manager is probed before the first public call; that call probes
\* every manager once; no later call probes a manager or changes the list.
C9_BuiltOnce ==
    /\ [](~_instance => (lastCall.op = "none" /\ probeLog = << >> /\ _pkgManagers = << >>))
    /\ [](_instance =>
            /\ lastCall.op # "none"
            /\ \A b \in Backends :
                    /\ ProbeCount(b, "isPrimaryPkgManager") = 1
                    /\ ProbeCount(b, "isAvailable") = IF isPrimaryOnHost(b) THEN 0 ELSE 1)
    /\ [][_instance => (_instance' /\ probeLog' = probeLog /\ _pkgManagers' = _pkgManagers)]_vars

\* C9: a public call after the first one, on a host with two managers
C9_Witness ==
    /\ _instance
    /\ isOwningPkgCall /\ lastCall.repeated
    /\ Len(_pkgManagers) = 2
    /\ Len(probeLog) > 3

FailureMarker(b) ==
    CASE b = "Dpkg"   -> "no path found matching pattern"
      [] b = "Rpm"    -> "not owned by any package"
      [] b = "PacMan" -> "No package owns"

Failed(b, res) == res.exitCode # 0 \/ contains(res.output, FailureMarker(b))

\* C10: owningPkg() of a manager returns the empty string when the exit code
\* is not 0 or the output contains the failure marker of the manager;
\* PkgQuery::owningPkg() then goes on to the next manager, and when all fail
\* it returns the empty string and caches it for the path.
C10_FailureIsMiss ==
    isOwningPkgCall =>
        LET pm == _pkgManagers
        IN  /\ \A i \in 1..Len(lastCall.invoked) :
                    Failed(lastCall.invoked[i].mgr, lastCall.outs[lastCall.invoked[i].mgr])
                        => /\ lastCall.invoked[i].ret = ""
                           /\ (i < Len(pm) => Len(lastCall.invoked) > i)
            /\ (~lastCall.resident /\ \A i \in 1..Len(pm) : Failed(pm[i], lastCall.outs[pm[i]]))
                        => /\ lastCall.result = ""
                           /\ Len(lastCall.invoked) = Len(pm)
                           /\ _cache # << >>
                           /\ _cache[1] = [ key |-> lastCall.arg, obj |-> "" ]

\* C10: three managers fail, the first by a marker in an output that also
\* names an owner, the last by its exit code
C10_Witness ==
    /\ isOwningPkgCall /\ ~lastCall.resident
    /\ Len(_pkgManagers) = 3
    /\ \A b \in Backends : Failed(b, lastCall.outs[b])
    /\ lastCall.outs[_pkgManagers[1]].exitCode = 0
    /\ section00(lastCall.outs[_pkgManagers[1]].output, " ") # lastCall.outs[_pkgManagers[1]].output
    /\ lastCall.outs[_pkgManagers[3]].exitCode # 0
    /\ ~contains(lastCall.outs[_pkgManagers[3]].output, FailureMarker(_pkgManagers[3]))
    /\ lastCall.result = ""

\* C11: right after owningPkg( path ) returned v, from the cache or from the
\* managers, the cache holds the key path with the value v; an insertion into
\* a full cache drops another entry, never the new one.
C11_ResultCached ==
    isOwningPkgCall =>
        /\ cacheContains(_cache, lastCall.arg)
        /\ cacheObject(_cache, lastCall.arg) = lastCall.result
        /\ Cardinality({ i \in 1..Len(_cache) : _cache[i].key = lastCall.arg }) = 1

\* C11: a name found by a manager was inserted into a cache that was full
C11_Witness ==
    /\ isOwningPkgCall /\ ~lastCall.resident
    /\ lastCall.result # ""
    /\ Cardinality(asked) > CACHE_SIZE
    /\ Len(_cache) = CACHE_SIZE
    /\ cacheObject(_cache, lastCall.arg) = lastCall.result

\* C12: installedPkg() and fileList( pkg ) leave the cache as it is, keys,
\* values and order; each such call, a repeated one too, asks the managers
\* again; owningPkg( path ) looks into the cache first: it asks no manager
\* when the path is in the cache and asks the first manager when it is not.
C12_ListingsNotCached ==
    /\ [][lastCall'.op \in { "installedPkg", "fileList" } => _cache' = _cache]_vars
    /\ [](lastCall.op = "installedPkg" =>
            /\ Len(lastCall.invoked) = Len(_pkgManagers)
            /\ \A i \in 1..Len(_pkgManagers) : lastCall.invoked[i].mgr = _pkgManagers[i])
    /\ []((lastCall.op = "fileList" /\ _pkgManagers # << >>) =>
            /\ lastCall.invoked # << >>
            /\ lastCall.invoked[1].mgr = _pkgManagers[1])
    /\ [](isOwningPkgCall =>
            /\ lastCall.resident => (lastCall.invoked = << >> /\ lastCall.foundBy = "Cache")
            /\ (~lastCall.resident /\ _pkgManagers # << >>) =>
                    (lastCall.invoked # << >> /\ lastCall.invoked[1].mgr = _pkgManagers[1]))

\* C12: installedPkg() called twice in a row while the cache holds an owner
C12_Witness ==
    /\ lastCall.op = "installedPkg" /\ lastCall.repeated
    /\ Len(lastCall.invoked) = 3
    /\ lastCall.result # << >>
    /\ _cache # << >>
    /\ _cache[1].obj # ""

IsSpace(ch) == ch \in { " ", "\t" }

\* the fields of a line that are separated by white space: the longest
\* pieces of the line without a blank or a tab
RECURSIVE WsFields(_)
WsFields(s) ==
    IF s = "" THEN << >>
    ELSE IF IsSpace(SubSeq(s, 1, 1)) THEN WsFields(SubSeq(s, 2, Len(s)))
    ELSE LET spaces == { i \in 1..Len(s) : IsSpace(SubSeq(s, i, i)) }
             n      == IF spaces = {} THEN Len(s) + 1
                       ELSE CHOOSE i \in spaces : \A j \in spaces : i <= j
         IN  << SubSeq(s, 1, n - 1) >> \o WsFields(SubSeq(s, n, Len(s)))

\* the record of a line that has three fields separated by white space
WsRecord(line) ==
    LET f == WsFields(line)
    IN  IF Len(f) = 3 THEN << PkgInfo(f[1], f[3], f[2]) >> ELSE << >>

\* the record of a non-empty line with exactly two blanks: the name is the
\* text before the first blank, the architecture the text between the two,
\* the version the text after the second
BlankRecord(line) ==
    LET blanks == occurrences(line, " ")
        b1     == indexOf(line, " ")
        b2     == lastIndexOf(line, " ")
    IN  IF line # "" /\ Cardinality(blanks) = 2
        THEN << PkgInfo(SubSeq(line, 1, b1 - 1), SubSeq(line, b2 + 1, Len(line)),
                        SubSeq(line, b1 + 1, b2 - 1)) >>
        ELSE << >>

isDpkgListing == lastCall.op = "DpkgPkgManager::installedPkg" /\ lastCall.arg.exitCode = 0

ListingLinesOf(output) == split(output, "\n")

\* C13 as stated: the list has, in the order of the lines, one record for
\* each line with exactly three fields separated by white space, and nothing
\* for any other line.
C13_WhitespaceFields ==
    isDpkgListing =>
        LET lines == ListingLinesOf(lastCall.arg.output)
        IN  lastCall.result = Concat([ i \in 1..Len(lines) |-> WsRecord(lines[i]) ])

\* C13 amended: the list has, in the order of the lines, one record for each
\* non-empty line that holds exactly two blank characters, with the name
\* before the first blank, the architecture between the blanks and the version
\* after the second one, empty fields included; every other line gives
\* nothing and leaves the records of the other lines as they are.
C13_SingleBlankFields ==
    isDpkgListing =>
        LET lines == ListingLinesOf(lastCall.arg.output)
        IN  lastCall.result = Concat([ i \in 1..Len(lines) |-> BlankRecord(lines[i]) ])

\* C13: the listing with a line without blanks between two valid lines
C13_Witness ==
    /\ isDpkgListing
    /\ lastCall.arg.output = "pkgA amd64 1.0\nGARBAGE\npkgB amd64 2.0"
    /\ lastCall.result = << PkgInfo("pkgA", "1.0", "amd64"), PkgInfo("pkgB", "2.0", "amd64") >>

\* C14: when "/usr/bin/pacman -Qo" ends with exit code 0 and prints
\* "<path> is owned by <name> <version>" without the text "No package owns",
\* owningPkg() returns <name>, also for a path with blanks in it.
C14_OwnerName ==
    \A path \in PacManPaths, name \in PacManNames, version \in PacManVersions :
        ( /\ lastCall.op = "PacManPkgManager::owningPkg"
          /\ lastCall.arg.exitCode = 0
          /\ lastCall.arg.output = OwnedBy(path, name, version)
          /\ ~contains(lastCall.arg.output, "No package owns") )
            => lastCall.result = name

\* C14: a path with blanks that itself holds the words "is owned by"
C14_Witness ==
    /\ lastCall.op = "PacManPkgManager::owningPkg"
    /\ lastCall.arg = CmdResult(0, OwnedBy("/tmp/x is owned by y", "lib32-glibc", "1:2.28-1"))
    /\ lastCall.result = "lib32-glibc"

\* C15: the calls of two threads exclude each other: of two calls for the
\* same path that was not in the cache only one asks the package managers,
\* _cache is never used by two threads at once, no call fails, and the two
\* calls return the same package name.
C15_CriticalSection ==
    /\ ~dataRace
    /\ \A t \in Threads : threads[t].pc # "crashed"
    /\ \A t, u \in Threads :
            (t # u /\ threads[t].pc # "idle" /\ threads[u].pc # "idle"
                   /\ threads[t].path = threads[u].path) =>
                /\ ~(threads[t].invoked # << >> /\ threads[u].invoked # << >>)
                /\ (threads[t].pc = "done" /\ threads[u].pc = "done")
                        => threads[t].pkg = threads[u].pkg

\* the executable of a manager of the list
executableOf(b) == owningPkgCommand(b, _rpmCommand)

\* C16: the executable of every manager of the list exists on the host, for
\* a manager that was taken for the primary one without a call of
\* isAvailable() too; a manager whose executable is missing is not in the list.
C16_ActiveAvailable ==
    _instance =>
        /\ \A i \in 1..Len(_pkgManagers) : executableOf(_pkgManagers[i]) \in host.commands
        /\ \A b \in Backends :
                (\A command \in host.commands : command # executableOf(b))
                    => b \notin Range(_pkgManagers)

\* C16: a primary manager in the list that isAvailable() was never called
\* for, and a manager that would attest itself but has no executable
C16_Witness ==
    /\ _instance
    /\ _pkgManagers = << "Rpm", "Dpkg" >>
    /\ ProbeCount("Rpm", "isPrimaryPkgManager") = 1
    /\ ProbeCount("Rpm", "isAvailable") = 0
    /\ _rpmCommand = "/bin/rpm"
    /\ "PacMan" \in host.attests
    /\ "/usr/bin/pacman" \notin host.commands

\* a service without cache: the answer of the first manager of the list
\* that knows an owner of the path, the empty string if none does
UncachedOwningPkg(mgrs, path) ==
    LET ans(i)  == mgrOwningPkg(mgrs[i], ScanAnswer(mgrs[i], path))
        none(i) == ans(i) = ""
        first   == FirstAnswering(Len(mgrs), none)
    IN  IF first = 0 THEN "" ELSE ans(first)

\* what that service returns on the host of the scan for each path of the scan
UncachedScan ==
    [ path \in 1..(CACHE_SIZE + MaxOverflow) |->
        UncachedOwningPkg(PkgQuery(ScanHost, << >>).pm, path) ]

\* C17: while the managers answer the same for a path each time, every
\* owningPkg( path ) call returns what the service without cache returns for
\* the path, before and after entries were dropped from the cache, and every
\* name in the cache is what that service returns for its key.
C17_CacheRefinesDispatch ==
    /\ isOwningPkgCall => lastCall.result = UncachedScan[lastCall.arg]
    /\ \A i \in 1..Len(_cache) : _cache[i].obj = UncachedScan[_cache[i].key]

\* C17: the first path of the scan was dropped from the full cache and is
\* asked for again; the cache holds names of two managers and empty names
C17_Witness ==
    /\ isOwningPkgCall /\ ~lastCall.resident
    /\ lastCall.arg \in requeried
    /\ Len(_cache) = CACHE_SIZE
    /\ { "", "bash", "coreutils" } \subseteq { _cache[i].obj : i \in 1..Len(_cache) }

\* C18: once the RpmPkgManager is constructed _rpmCommand is not empty: it is
\* "/usr/bin/rpm" when the host has that file and "/bin/rpm" when it has
\* not. The manager is in the list exactly when the host has _rpmCommand, it
\* is taken for primary exactly when the host has _rpmCommand and rpm owns
\* it, and every ownership query of the manager runs _rpmCommand.
C18_RpmCommand ==
    _instance =>
        /\ _rpmCommand # ""
        /\ _rpmCommand = IF "/usr/bin/rpm" \in host.commands THEN "/usr/bin/rpm" ELSE "/bin/rpm"
        /\ "Rpm" \in Range(_pkgManagers) <=> _rpmCommand \in host.commands
        /\ ProbeCount("Rpm", "isPrimaryPkgManager") = 1
        /\ ProbeCount("Rpm", "isAvailable") = 0
                <=> (_rpmCommand \in host.commands /\ "Rpm" \in host.attests)
        /\ \A i \in 1..Len(lastCall.invoked) :
                (lastCall.op = "owningPkg" /\ lastCall.invoked[i].mgr = "Rpm")
                    => lastCall.invoked[i].cmd = _rpmCommand

\* C18: a host with /bin/rpm only; the Rpm manager is primary and answers
\* an ownership query
C18_Witness ==
    /\ _instance
    /\ "/usr/bin/rpm" \notin host.commands
    /\ _rpmCommand = "/bin/rpm"
    /\ _pkgManagers # << >> /\ _pkgManagers[1] = "Rpm"
    /\ isOwningPkgCall
    /\ lastCall.invoked # << >>
    /\ lastCall.invoked[1] = [ mgr |-> "Rpm", op |-> "owningPkg", cmd |-> "/bin/rpm", ret |-> "bash" ]

====
